---- MODULE Spec2Model ----
(***************************************************************************)
(* A model of the aggregation engine of claude_usage: the pricing          *)
(* resolver (src/src/pricing.py), the event store written by the receiver  *)
(* (src/src/receiver.py), the daily aggregator (src/src/aggregator.py) and *)
(* the hourly bucketizer and period composer (src/src/analytics.py).       *)
(*                                                                         *)
(* Conventions of the model                                                *)
(*  - a Python str whose characters matter (model ids, tool names, the     *)
(*    rendered "Top Tools" and "Model Breakdown" strings) is a sequence of *)
(*    one-character strings; dictionary keys, event names and record kinds *)
(*    are compared only for equality and stay TLA+ strings;                *)
(*  - a Python float is an exact fixed-point number: attribute and metric  *)
(*    values are counted in units of 1/FDen, rates in cents per MTok,      *)
(*    costs in micro-dollars (6 decimals) or 1e-4 dollars (4 decimals),    *)
(*    percentages and milliseconds in tenths; round() is round-half-even   *)
(*    on the exact value (binary floating-point error is not modelled);    *)
(*  - a raised exception is the value Raise(kind) returned in place of the *)
(*    result.                                                              *)
(***************************************************************************)
EXTENDS Integers, Sequences, FiniteSets, TLC

VARIABLES
    store,      \* the event store: date -> NoFile or the lines of <date>.jsonl
    today,      \* the receiver's clock, datetime.now() as a date
    writer,     \* the receiver's _append in progress: Idle, or the open file and the batch to write
    sheet,      \* the spreadsheet store: its data rows in order
    producer,   \* the records the telemetry client sends in this run
    resp        \* the call being answered: Idle, or [op, args, out]

vars == <<store, today, writer, sheet, producer, resp>>

(***************************************************************************)
(* Bounds of the model.                                                    *)
(***************************************************************************)
\* longest suffix appended to a pricing-table key to make a model id
MaxSuffix == 2
\* most lines the event store holds, over all its files
MaxRecords == 3
\* number of days the receiver's clock covers
MaxDays == 2

(***************************************************************************)
(* Python values.                                                          *)
(***************************************************************************)
None == [t |-> "none"]
Num(n) == [t |-> "num", n |-> n]
Str(s) == [t |-> "str", s |-> s]
Bool(b) == [t |-> "bool", b |-> b]

\* denominator of the fixed-point floats: Num(n) is the float n / FDen
FDen == 2
\* the float of a whole number
Whole(i) == Num(i * FDen)

\* the outcome of a call: the value it returns, or the exception it raises
Ok(v) == [ok |-> TRUE, val |-> v]
Raise(kind) == [ok |-> FALSE, raised |-> kind]
IsRaise(x) == ~x.ok

\* the element of a one-element set.  Only({e : name \in {v}}) is the code  name = v
\* followed by e: v is evaluated once, when it is assigned to the local name
Only(S) == CHOOSE out \in S : TRUE

\* dict.get(key, default)
Get(d, k, default) == IF k \in DOMAIN d THEN d[k] ELSE default

\* truth value of a Python object
Truthy(v) ==
    CASE v.t = "none" -> FALSE
      [] v.t = "num"  -> v.n # 0
      [] v.t = "str"  -> v.s # <<>>
      [] v.t = "bool" -> v.b
      [] v.t = "dict" -> DOMAIN v.d # {}
      [] v.t = "iso"  -> TRUE

\* Python's  a or b
Or(a, b) == IF Truthy(a) THEN a ELSE b

\* round-half-even of the exact quotient n / d, for n >= 0 and d > 0
RoundDiv(n, d) ==
    LET q == n \div d
        r == n % d
    IN  IF 2 * r < d THEN q
        ELSE IF 2 * r > d THEN q + 1
        ELSE IF q % 2 = 0 THEN q ELSE q + 1

\* int(x) of a float x >= 0 held in units of 1/FDen: truncation
IntOf(n) == n \div FDen

RECURSIVE SumSeq(_)
SumSeq(s) == IF s = <<>> THEN 0 ELSE Head(s) + SumSeq(Tail(s))

Range(s) == {s[i] : i \in DOMAIN s}

RECURSIVE InsertIdx(_, _, _, _)
\* index i placed after every index whose key it does not strictly precede
InsertIdx(sorted, i, keys, descending) ==
    IF sorted = <<>> THEN <<i>>
    ELSE IF (IF descending THEN keys[i] > keys[Head(sorted)] ELSE keys[i] < keys[Head(sorted)])
         THEN <<i>> \o sorted
         ELSE <<Head(sorted)>> \o InsertIdx(Tail(sorted), i, keys, descending)

RECURSIVE SortIdxFrom(_, _, _, _)
SortIdxFrom(keys, i, acc, descending) ==
    IF i > Len(keys) THEN acc
    ELSE SortIdxFrom(keys, i + 1, InsertIdx(acc, i, keys, descending), descending)

\* sorted(s, key=..., reverse=descending): a stable sort of s by the integer keys[i] of s[i]
StableSort(s, keys, descending) ==
    LET idx == SortIdxFrom(keys, 1, <<>>, descending)
    IN  [k \in DOMAIN idx |-> s[idx[k]]]

(***************************************************************************)
(* Strings.                                                                *)
(***************************************************************************)
\* str.startswith
startswith(s, p) == Len(p) <= Len(s) /\ SubSeq(s, 1, Len(p)) = p

Digits == <<"0", "1", "2", "3", "4", "5", "6", "7", "8", "9">>

\* code points of the characters the model uses, in Unicode order
CharOrder ==
    <<" ", "$", ",", "-", ".", "0", "1", "2", "3", "4", "5", "6", "7", "8", "9", ":",
      "A", "B", "E", "R", "W",
      "a", "c", "d", "e", "f", "h", "i", "k", "l", "m", "n", "o", "p", "r", "s", "t",
      "u", "w", "x">>
ord(c) == CHOOSE i \in DOMAIN CharOrder : CharOrder[i] = c

RECURSIVE StrLess(_, _)
\* a < b on str: lexicographic by code point
StrLess(a, b) ==
    IF b = <<>> THEN FALSE
    ELSE IF a = <<>> THEN TRUE
    ELSE IF Head(a) # Head(b) THEN ord(Head(a)) < ord(Head(b))
    ELSE StrLess(Tail(a), Tail(b))

RECURSIVE SortedNames(_)
\* sorted(S) of a set of distinct str
SortedNames(S) ==
    IF S = {} THEN <<>>
    ELSE LET m == CHOOSE x \in S : \A y \in S \ {x} : StrLess(x, y)
         IN  <<m>> \o SortedNames(S \ {m})

RECURSIVE Join(_, _)
\* sep.join(parts)
Join(parts, sep) ==
    IF parts = <<>> THEN <<>>
    ELSE IF Len(parts) = 1 THEN parts[1]
    ELSE parts[1] \o sep \o Join(Tail(parts), sep)

CommaSpace == <<",", " ">>

(***************************************************************************)
(* pricing.py                                                              *)
(***************************************************************************)
Claude == <<"c", "l", "a", "u", "d", "e", "-">>
Opus4 == Claude \o <<"o", "p", "u", "s", "-", "4", "-">>
Sonnet == Claude \o <<"s", "o", "n", "n", "e", "t", "-">>
Haiku == Claude \o <<"h", "a", "i", "k", "u", "-">>

\* the pricing table in the order of the dict literal: <<prefix, (input, output,
\* cache_read, cache_write)>>, rates in cents per MTok
PRICING ==
    << <<Opus4 \o <<"6">>,            <<500, 2500, 50, 625>> >>,
       <<Opus4 \o <<"5">>,            <<500, 2500, 50, 625>> >>,
       <<Opus4 \o <<"1">>,            <<1500, 7500, 150, 1875>> >>,
       <<Opus4,                       <<1500, 7500, 150, 1875>> >>,
       <<Sonnet \o <<"4", "-", "5">>, <<300, 1500, 30, 375>> >>,
       <<Sonnet \o <<"4", "-">>,      <<300, 1500, 30, 375>> >>,
       <<Sonnet \o <<"3", "-", "7">>, <<300, 1500, 30, 375>> >>,
       <<Haiku \o <<"4", "-", "5">>,  <<100, 500, 10, 125>> >>,
       <<Haiku \o <<"3", "-", "5">>,  <<80, 400, 8, 100>> >>,
       <<Haiku \o <<"3">>,            <<25, 125, 3, 30>> >> >>

PricingKeys == [i \in DOMAIN PRICING |-> PRICING[i][1]]

\* PRICING[prefix]
PricingOf(prefix) == PRICING[CHOOSE i \in DOMAIN PRICING : PRICING[i][1] = prefix][2]

KeyLengths == [i \in DOMAIN PricingKeys |-> Len(PricingKeys[i])]

SortedPrefixesAscending == StableSort(PricingKeys, KeyLengths, FALSE)
\* sorted(PRICING.keys(), key=len, reverse=True)
_SORTED_PREFIXES == StableSort(PricingKeys, KeyLengths, TRUE)

FallbackHaiku == <<100, 500, 10, 125>>
_FALLBACK == <<300, 1500, 30, 375>>

RECURSIVE FirstMatch(_, _, _)
\* the for loop of get_pricing: the first prefix, from position i, that model_id starts with
FirstMatch(prefixes, model_id, i) ==
    IF i > Len(prefixes) THEN None
    ELSE IF startswith(model_id, prefixes[i]) THEN Str(prefixes[i])
    ELSE FirstMatch(prefixes, model_id, i + 1)

get_pricing(model_id) ==
    LET hit == FirstMatch(_SORTED_PREFIXES, model_id, 1)
    IN  IF hit = None THEN _FALLBACK ELSE PricingOf(hit.s)

\* calculate_cost, in units of 1e-8 / FDen dollars: token counts are in 1/FDen, rates in
\* cents per MTok, and nothing is rounded at this layer
calculate_cost(model_id, input_tokens, output_tokens, cache_read_tokens, cache_creation_tokens) ==
    LET r == get_pricing(model_id)
    IN  input_tokens * r[1] + output_tokens * r[2]
        + cache_read_tokens * r[3] + cache_creation_tokens * r[4]

(***************************************************************************)
(* Dates: a date is its ordinal, day 1 being 2025-01-01.                   *)
(***************************************************************************)
EpochYear == 2025

IsLeap(y) == (y % 4 = 0 /\ y % 100 # 0) \/ y % 400 = 0

\* calendar.monthrange(year, month)[1]
monthrange(y, m) ==
    IF m = 2 THEN (IF IsLeap(y) THEN 29 ELSE 28)
    ELSE IF m \in {4, 6, 9, 11} THEN 30 ELSE 31

RECURSIVE DaysBeforeMonth(_, _)
DaysBeforeMonth(y, m) == IF m = 1 THEN 0 ELSE DaysBeforeMonth(y, m - 1) + monthrange(y, m - 1)

RECURSIVE DaysBeforeYear(_)
DaysBeforeYear(y) ==
    IF y = EpochYear THEN 0
    ELSE DaysBeforeYear(y - 1) + (IF IsLeap(y - 1) THEN 366 ELSE 365)

\* datetime.date(year, month, day)
date(y, m, d) == DaysBeforeYear(y) + DaysBeforeMonth(y, m) + d

\* the (year, month, day) of a date
YMD(o) ==
    CHOOSE t \in (EpochYear .. EpochYear + 1) \X (1 .. 12) \X (1 .. 31) :
        t[3] <= monthrange(t[1], t[2]) /\ date(t[1], t[2], t[3]) = o

RECURSIVE FormatInt(_)
\* str(n) for n >= 0
FormatInt(n) ==
    IF n < 10 THEN <<Digits[n + 1]>> ELSE FormatInt(n \div 10) \o <<Digits[(n % 10) + 1]>>

RECURSIVE ZeroPad(_, _)
\* f"{n:0<w>d}"
ZeroPad(s, w) == IF Len(s) >= w THEN s ELSE ZeroPad(<<"0">> \o s, w)

\* date.isoformat()
isoformat(o) ==
    LET t == YMD(o)
    IN  ZeroPad(FormatInt(t[1]), 4) \o <<"-">> \o ZeroPad(FormatInt(t[2]), 2)
        \o <<"-">> \o ZeroPad(FormatInt(t[3]), 2)

(***************************************************************************)
(* Event records and the event store.                                      *)
(*                                                                         *)
(* A record is [ts, type, event, data]; data, attributes, resource and a   *)
(* dict body are functions from keys to Python values; the empty dict is   *)
(* <<>>.  A timestamp is Ts(h), an ISO-8601 string whose hour is h.        *)
(***************************************************************************)
Dict(d) == [t |-> "dict", d |-> d]
Ts(h) == [t |-> "iso", hour |-> h]
IsDict(v) == v.t = "dict"

\* the file of a day: absent, or its lines in order
NoFile == [exists |-> FALSE]
File(lines) == [exists |-> TRUE, lines |-> lines]

\* the line json.dumps(rec) + "\n" written by _append
JsonLine(rec) == [json |-> rec]

PathExists(d) == d \in DOMAIN store /\ store[d].exists

\* json.loads(line) succeeds
JsonOk(line) == "json" \in DOMAIN line
\* json.loads(line)
json_loads(line) == line.json

\* load_records without the path.exists() test: open() fails on a missing file
LoadRecordsUnguarded(target_date) ==
    IF ~PathExists(target_date) THEN Raise("FileNotFoundError")
    ELSE Ok([i \in DOMAIN store[target_date].lines |-> json_loads(store[target_date].lines[i])])

\* load_records: [] when the file is missing, else one record per non-empty line
load_records(target_date) ==
    IF ~PathExists(target_date) THEN Ok(<<>>)
    ELSE LET lines == SelectSeq(store[target_date].lines, LAMBDA l : "blank" \notin DOMAIN l)
         IN  IF \E i \in DOMAIN lines : ~JsonOk(lines[i]) THEN Raise("JSONDecodeError")
             ELSE Ok([i \in DOMAIN lines |-> json_loads(lines[i])])

(***************************************************************************)
(* aggregator.py                                                           *)
(***************************************************************************)
RECURSIVE DigitsValue(_, _)
\* the value of a string of decimal digits after acc, or -1 when a character is no digit
DigitsValue(s, acc) ==
    IF s = <<>> THEN acc
    ELSE IF \E i \in DOMAIN Digits : Digits[i] = Head(s)
         THEN DigitsValue(Tail(s), 10 * acc + (CHOOSE i \in DOMAIN Digits : Digits[i] = Head(s)) - 1)
         ELSE -1

\* the decimal numeral s as [mant, scale], the number mant / 10^scale; None when float(s)
\* raises ValueError (numerals are unsigned digits with at most one point)
ParseDecimal(s) ==
    LET dots == {i \in DOMAIN s : s[i] = "."}
        dot == IF dots = {} THEN Len(s) + 1 ELSE CHOOSE i \in dots : \A j \in dots : i <= j
        whole == SubSeq(s, 1, dot - 1)
        frac == SubSeq(s, dot + 1, Len(s))
    IN  IF Len(whole) + Len(frac) = 0 \/ DigitsValue(whole \o frac, 0) < 0 THEN None
        ELSE [t |-> "dec", mant |-> DigitsValue(whole \o frac, 0), scale |-> Len(frac)]

RECURSIVE Pow10(_)
Pow10(k) == IF k = 0 THEN 1 ELSE 10 * Pow10(k - 1)

\* float(v) succeeds: v is a number, a bool, or a numeral the fixed-point unit can hold
FloatOk(v) ==
    \/ v.t \in {"num", "bool"}
    \/ /\ v.t = "str"
       /\ ParseDecimal(v.s) # None
       /\ (ParseDecimal(v.s).mant * FDen) % Pow10(ParseDecimal(v.s).scale) = 0

\* float(v), in units of 1/FDen
FloatOf(v) ==
    CASE v.t = "num"  -> v.n
      [] v.t = "bool" -> IF v.b THEN FDen ELSE 0
      [] v.t = "str"  -> (ParseDecimal(v.s).mant * FDen) \div Pow10(ParseDecimal(v.s).scale)

Attributes(r) == Get(r.data, "attributes", <<>>)
Body(r) == Get(r.data, "body", Dict(<<>>))

\* attrs.get(attr_key) or (body.get(attr_key) if isinstance(body, dict) else None)
AttrOrBody(r, attr_key) ==
    Or(Get(Attributes(r), attr_key, None),
       IF IsDict(Body(r)) THEN Get(Body(r).d, attr_key, None) ELSE None)

\* attrs if attrs else (body if isinstance(body, dict) else {})
Src(r) ==
    IF Attributes(r) # <<>> THEN Attributes(r)
    ELSE IF IsDict(Body(r)) THEN Body(r).d ELSE <<>>

\* the metric records named name that pass attr_filter, a dict or None
MetricRecords(records, name, attr_filter) ==
    SelectSeq(records, LAMBDA r :
        /\ r.type = "metric" /\ r.event = name
        /\ (attr_filter # None /\ DOMAIN attr_filter.d # {}) =>
               \A k \in DOMAIN attr_filter.d : Get(Attributes(r), k, None) = attr_filter.d[k])

\* the values float() is applied to in _metric_sum
MetricValues(records, name, attr_filter) ==
    LET rs == MetricRecords(records, name, attr_filter)
        vals == [i \in DOMAIN rs |-> Get(rs[i].data, "value", None)]
    IN  SelectSeq(vals, LAMBDA v : v # None)

_metric_sum(records, name, attr_filter) ==
    LET vals == MetricValues(records, name, attr_filter)
    IN  SumSeq([i \in DOMAIN vals |-> FloatOf(vals[i])])

\* the records named event_name, of either kind
EventRecordsOfAnyType(records, event_name) ==
    SelectSeq(records, LAMBDA r : r.event = event_name)

_event_records(records, event_name) ==
    SelectSeq(records, LAMBDA r : r.type = "log" /\ r.event = event_name)

_event_count(records, event_name) == Len(_event_records(records, event_name))

\* the values float() is applied to in _sum_attr and _avg_attr
AttrValues(records, event_name, attr_key) ==
    LET rs == _event_records(records, event_name)
        vals == [i \in DOMAIN rs |-> AttrOrBody(rs[i], attr_key)]
    IN  SelectSeq(vals, LAMBDA v : v # None)

_sum_attr(records, event_name, attr_key) ==
    LET vals == AttrValues(records, event_name, attr_key)
    IN  SumSeq([i \in DOMAIN vals |-> FloatOf(vals[i])])

\* sum(values) / len(values) rounded to 1 decimal by the caller: the mean in tenths
_avg_attr(records, event_name, attr_key) ==
    LET vals == AttrValues(records, event_name, attr_key)
    IN  IF vals = <<>> THEN 0
        ELSE RoundDiv(10 * SumSeq([i \in DOMAIN vals |-> FloatOf(vals[i])]), FDen * Len(vals))

Unknown == <<"u", "n", "k", "n", "o", "w", "n">>
TokenKeys == <<"input_tokens", "output_tokens", "cache_read_tokens", "cache_creation_tokens">>

RECURSIVE FirstSeen(_, _)
\* the distinct elements of s in the order of their first occurrence, after those of acc
FirstSeen(s, acc) ==
    IF s = <<>> THEN acc
    ELSE FirstSeen(Tail(s), IF Head(s) \in Range(acc) THEN acc ELSE Append(acc, Head(s)))

\* Counter.most_common(n) of the tally of the elements of s: by count, the largest first,
\* equal counts in first-seen order
most_common(s, n) ==
    LET names == FirstSeen(s, <<>>)
        counts == [i \in DOMAIN names |-> Cardinality({j \in DOMAIN s : s[j] = names[i]})]
        ranked == StableSort(names, counts, TRUE)
    IN  SubSeq(ranked, 1, IF Len(ranked) < n THEN Len(ranked) ELSE n)

\* src.get("tool_name", src.get("tool", "unknown"))
ToolName(r) == Get(Src(r), "tool_name", Get(Src(r), "tool", Str(Unknown))).s

\* src.get("success", src.get("is_success", True))
ToolSucceeded(r) == Truthy(Get(Src(r), "success", Get(Src(r), "is_success", Bool(TRUE))))

\* src.get("model", "unknown")
ModelOf(r) == Get(Src(r), "model", Str(Unknown)).s

\* float(src.get(key, 0))
SrcToken(r, key) == FloatOf(Get(Src(r), key, Whole(0)))

\* the cents cut off instead of rounded
Format2fTruncated(cost) ==
    FormatInt(cost \div 1000000) \o <<".">> \o ZeroPad(FormatInt((cost \div 10000) % 100), 2)

\* f"{cost:.2f}" of a cost in micro-dollars
Format2f(cost) ==
    LET cents == RoundDiv(cost, 10000)
    IN  FormatInt(cents \div 100) \o <<".">> \o ZeroPad(FormatInt(cents % 100), 2)

\* f"{m}: ${cost:.2f}"
BreakdownEntry(m, cost) == m \o <<":", " ", "$">> \o Format2f(cost)

\* the per-model loop of aggregate: model -> token sums (int() of each record's counts)
\* and the cost accumulated record by record, rounded to 6 decimals (micro-dollars)
ModelDetails(records) ==
    LET rs == _event_records(records, "api_request")
        models == {ModelOf(rs[i]) : i \in DOMAIN rs}
        of(m) == SelectSeq(rs, LAMBDA r : ModelOf(r) = m)
        ints(m, key) == SumSeq([i \in DOMAIN of(m) |-> IntOf(SrcToken(of(m)[i], key))])
        costs(m) == SumSeq([i \in DOMAIN of(m) |->
                        calculate_cost(m, SrcToken(of(m)[i], "input_tokens"),
                                       SrcToken(of(m)[i], "output_tokens"),
                                       SrcToken(of(m)[i], "cache_read_tokens"),
                                       SrcToken(of(m)[i], "cache_creation_tokens"))])
    IN  [m \in models |->
            [input_tokens |-> ints(m, "input_tokens"),
             output_tokens |-> ints(m, "output_tokens"),
             cache_read_tokens |-> ints(m, "cache_read_tokens"),
             cache_creation_tokens |-> ints(m, "cache_creation_tokens"),
             cost |-> RoundDiv(costs(m), 100 * FDen)]]

\* sum(md["cost"] for md in model_details.values())
RECURSIVE SumCosts(_, _)
SumCosts(details, models) ==
    IF models = {} THEN 0
    ELSE LET m == CHOOSE x \in models : TRUE
         IN  details[m].cost + SumCosts(details, models \ {m})

\* each model's cost rounded to 4 decimals before the sum
RECURSIVE TotalCostRoundedPerModel(_)
TotalCostRoundedPerModel(model_details) ==
    IF DOMAIN model_details = {} THEN 0
    ELSE LET m == CHOOSE x \in DOMAIN model_details : TRUE
         IN  RoundDiv(model_details[m].cost, 100)
             + TotalCostRoundedPerModel([x \in DOMAIN model_details \ {m} |-> model_details[x]])

\* round(sum(md["cost"] ...), 4), in 1e-4 dollars
TotalCostPriced(model_details) == RoundDiv(SumCosts(model_details, DOMAIN model_details), 100)

\* ", ".join(f"{m}: ${md['cost']:.2f}" for m, md in sorted(model_details.items()))
ModelBreakdown(model_details) ==
    LET names == SortedNames(DOMAIN model_details)
    IN  Join([i \in DOMAIN names |-> BreakdownEntry(names[i], model_details[names[i]].cost)],
             CommaSpace)

\* the set of session ids of the records' resources
SessionIds(records) ==
    LET sid(r) == Or(Get(Get(r.data, "resource", <<>>), "session.id", None),
                     Get(Get(r.data, "resource", <<>>), "service.instance.id", None))
    IN  {sid(records[i]) : i \in {j \in DOMAIN records : Truthy(sid(records[j]))}}

\* int(session_count): the session.count metric, else the number of session ids, else 1
Sessions(records) ==
    LET session_count == _metric_sum(records, "session.count", None)
    IN  IF session_count # 0 THEN IntOf(session_count)
        ELSE IF SessionIds(records) # {} THEN Cardinality(SessionIds(records)) ELSE 1

\* some float() of aggregate raises on these records
AggregateRaises(records) ==
    \/ \E k \in Range(TokenKeys) \cup {"duration_ms"} :
          \E v \in Range(AttrValues(records, "api_request", k)) : ~FloatOk(v)
    \/ \E r \in Range(_event_records(records, "api_request")) :
          \E k \in Range(TokenKeys) : ~FloatOk(Get(Src(r), k, Whole(0)))
    \/ \E r \in Range(records) :
          r.type = "metric" /\ Get(r.data, "value", None) # None
          /\ ~FloatOk(Get(r.data, "value", None))

Added == Dict([type |-> Str(<<"a", "d", "d", "e", "d">>)])
Removed == Dict([type |-> Str(<<"r", "e", "m", "o", "v", "e", "d">>)])

\* the dict aggregate builds from a non-empty list of records
Summary(records, target_date) ==
    LET input_tokens == _sum_attr(records, "api_request", "input_tokens")
        output_tokens == _sum_attr(records, "api_request", "output_tokens")
        cache_read == _sum_attr(records, "api_request", "cache_read_tokens")
        cache_creation == _sum_attr(records, "api_request", "cache_creation_tokens")
        total_tokens == input_tokens + output_tokens + cache_read + cache_creation
        tool_events == _event_records(records, "tool_result")
        tool_names == [i \in DOMAIN tool_events |-> ToolName(tool_events[i])]
        tool_success == Cardinality({i \in DOMAIN tool_events : ToolSucceeded(tool_events[i])})
        total_tool_calls == Len(tool_events)
    IN  Only({
        ("Date" :> isoformat(target_date))
        @@ ("Sessions" :> Sessions(records))
        @@ ("Active Time (hrs)" :>
               RoundDiv(100 * _metric_sum(records, "active_time.total", None), 3600 * FDen))
        @@ ("User Prompts" :> _event_count(records, "user_prompt"))
        @@ ("API Calls" :> _event_count(records, "api_request"))
        @@ ("Total Cost ($)" :> TotalCostPriced(model_details))
        @@ ("Input Tokens" :> IntOf(input_tokens))
        @@ ("Output Tokens" :> IntOf(output_tokens))
        @@ ("Cache Read Tokens" :> IntOf(cache_read))
        @@ ("Cache Creation Tokens" :> IntOf(cache_creation))
        @@ ("Total Tokens" :> IntOf(total_tokens))
        @@ ("Lines Added" :> IntOf(_metric_sum(records, "lines_of_code.count", Added)))
        @@ ("Lines Removed" :> IntOf(_metric_sum(records, "lines_of_code.count", Removed)))
        @@ ("Commits" :> IntOf(_metric_sum(records, "commit.count", None)))
        @@ ("Pull Requests" :> IntOf(_metric_sum(records, "pull_request.count", None)))
        @@ ("Tool Calls" :> total_tool_calls)
        @@ ("Tool Success Rate (%)" :>
               IF total_tool_calls # 0 THEN RoundDiv(1000 * tool_success, total_tool_calls) ELSE 0)
        @@ ("Top Tools" :> Join(most_common(tool_names, 3), CommaSpace))
        @@ ("API Errors" :> _event_count(records, "api_error"))
        @@ ("Avg API Duration (ms)" :> _avg_attr(records, "api_request", "duration_ms"))
        @@ ("Model Breakdown" :> ModelBreakdown(model_details))
        @@ ("model_details" :> model_details) : model_details \in {ModelDetails(records)}})

\* aggregate(target_date): {} when load_records returns no record, else the Daily Summary;
\* an exception of load_records or of a float() propagates
aggregate(target_date) ==
    Only({IF IsRaise(loaded) THEN loaded
          ELSE IF loaded.val = <<>> THEN Ok(<<>>)
          ELSE IF AggregateRaises(loaded.val) THEN Raise("ValueError")
          ELSE Ok(Summary(loaded.val, target_date)) : loaded \in {load_records(target_date)}})

(***************************************************************************)
(* analytics.py                                                            *)
(***************************************************************************)
\* _to_float of a summary value: the values aggregate produces are numbers, which
\* float() leaves unchanged
_to_float(val) == val

RECURSIVE Split(_, _, _)
\* s.split(c) for a one-character separator c: the pieces of s after the piece cur
Split(s, c, cur) ==
    IF s = <<>> THEN <<cur>>
    ELSE IF Head(s) = c THEN <<cur>> \o Split(Tail(s), c, <<>>)
    ELSE Split(Tail(s), c, Append(cur, Head(s)))

RECURSIVE LStrip(_)
LStrip(s) == IF s # <<>> /\ Head(s) = " " THEN LStrip(Tail(s)) ELSE s
RECURSIVE RStrip(_)
RStrip(s) == IF s # <<>> /\ s[Len(s)] = " " THEN RStrip(SubSeq(s, 1, Len(s) - 1)) ELSE s
\* str.strip()
Strip(s) == RStrip(LStrip(s))

ColonDollar == <<":", " ", "$">>

\* the positions at which ": $" occurs in part
ColonDollarAt(part) ==
    {i \in 1 .. Len(part) - 2 : SubSeq(part, i, i + 2) = ColonDollar}

\* sum of field k over the daily summaries: sum(_to_float(d.get(k, 0)) for d in daily_stats)
SumField(daily_stats, k) ==
    SumSeq([i \in DOMAIN daily_stats |-> _to_float(Get(daily_stats[i], k, 0))])

\* the sum without the weights
SumUnweighted(daily_stats, a, b) == SumField(daily_stats, a)

\* sum(_to_float(d.get(a, 0)) * _to_float(d.get(b, 0)) for d in daily_stats)
SumProduct(daily_stats, a, b) ==
    SumSeq([i \in DOMAIN daily_stats |->
               _to_float(Get(daily_stats[i], a, 0)) * _to_float(Get(daily_stats[i], b, 0))])

RECURSIVE Flatten(_)
Flatten(ss) == IF ss = <<>> THEN <<>> ELSE Head(ss) \o Flatten(Tail(ss))

\* the tool names tallied by the "Merge top tools" loop, one per day and listed name
MergedToolNames(daily_stats) ==
    LET listed(d) ==
            IF Get(d, "Top Tools", <<>>) = <<>> THEN <<>>
            ELSE LET tools == Split(d["Top Tools"], ",", <<>>)
                     stripped == [i \in DOMAIN tools |-> Strip(tools[i])]
                 IN  SelectSeq(stripped, LAMBDA t : t # <<>>)
    IN  Flatten([i \in DOMAIN daily_stats |-> listed(daily_stats[i])])

\* the (model, cost) pairs the "Merge model breakdown" loop adds, cost in micro-dollars,
\* in order; a part without ": $", or whose cost float() rejects, adds nothing
ParsedModelCosts(daily_stats) ==
    LET parsed(part) ==
            IF ColonDollarAt(part) = {} THEN <<>>
            ELSE LET at == CHOOSE i \in ColonDollarAt(part) : \A j \in ColonDollarAt(part) : i <= j
                     model == Strip(SubSeq(part, 1, at - 1))
                     cost == ParseDecimal(SubSeq(part, at + 3, Len(part)))
                 IN  IF cost = None \/ cost.scale > 6 THEN <<>>
                     ELSE << <<model, cost.mant * Pow10(6 - cost.scale)>> >>
        listed(d) ==
            IF Get(d, "Model Breakdown", <<>>) = <<>> THEN <<>>
            ELSE LET parts == Split(d["Model Breakdown"], ",", <<>>)
                 IN  Flatten([i \in DOMAIN parts |-> parsed(Strip(parts[i]))])
    IN  Flatten([i \in DOMAIN daily_stats |-> listed(daily_stats[i])])

\* all_model_costs: model -> the sum of its parsed costs
AllModelCosts(daily_stats) ==
    LET pairs == ParsedModelCosts(daily_stats)
    IN  [m \in {pairs[i][1] : i \in DOMAIN pairs} |->
            SumSeq([i \in DOMAIN pairs |-> IF pairs[i][1] = m THEN pairs[i][2] ELSE 0])]

\* ", ".join(f"{m}: ${c:.2f}" for m, c in sorted(all_model_costs.items()))
PeriodModelBreakdown(daily_stats) ==
    LET costs == AllModelCosts(daily_stats)
        names == SortedNames(DOMAIN costs)
    IN  Join([i \in DOMAIN names |-> BreakdownEntry(names[i], costs[names[i]])], CommaSpace)

\* merged_model_details: per model, the sums over the days' model_details; the cost is
\* rounded to 6 decimals again
MergedModelDetails(daily_stats) ==
    LET details(d) == Get(d, "model_details", <<>>)
        models == UNION {DOMAIN details(daily_stats[i]) : i \in DOMAIN daily_stats}
        total(m, k) ==
            SumSeq([i \in DOMAIN daily_stats |->
                       IF m \in DOMAIN details(daily_stats[i])
                       THEN _to_float(Get(details(daily_stats[i])[m], k, 0)) ELSE 0])
    IN  [m \in models |->
            [input_tokens |-> total(m, "input_tokens"),
             output_tokens |-> total(m, "output_tokens"),
             cache_read_tokens |-> total(m, "cache_read_tokens"),
             cache_creation_tokens |-> total(m, "cache_creation_tokens"),
             cost |-> total(m, "cost")]]

To == <<" ", "t", "o", " ">>

_compute_aggregate(daily_stats, start_date, end_date) ==
    LET days_with_data == Len(daily_stats)
        total_api_calls == SumField(daily_stats, "API Calls")
        total_tool_calls == SumField(daily_stats, "Tool Calls")
        total_active_time == SumField(daily_stats, "Active Time (hrs)")
        total_tool_success_weighted == SumProduct(daily_stats, "Tool Success Rate (%)", "Tool Calls")
        total_duration_weighted == SumProduct(daily_stats, "Avg API Duration (ms)", "API Calls")
    IN  ("Date" :> isoformat(start_date) \o To \o isoformat(end_date))
        @@ ("Sessions" :> SumField(daily_stats, "Sessions"))
        @@ ("Active Time (hrs)" :> total_active_time)
        @@ ("Avg Active Time/day (hrs)" :>
               IF days_with_data > 0 THEN RoundDiv(total_active_time, days_with_data) ELSE 0)
        @@ ("User Prompts" :> SumField(daily_stats, "User Prompts"))
        @@ ("API Calls" :> total_api_calls)
        @@ ("Total Cost ($)" :> SumField(daily_stats, "Total Cost ($)"))
        @@ ("Input Tokens" :> SumField(daily_stats, "Input Tokens"))
        @@ ("Output Tokens" :> SumField(daily_stats, "Output Tokens"))
        @@ ("Cache Read Tokens" :> SumField(daily_stats, "Cache Read Tokens"))
        @@ ("Cache Creation Tokens" :> SumField(daily_stats, "Cache Creation Tokens"))
        @@ ("Total Tokens" :> SumField(daily_stats, "Total Tokens"))
        @@ ("Lines Added" :> SumField(daily_stats, "Lines Added"))
        @@ ("Lines Removed" :> SumField(daily_stats, "Lines Removed"))
        @@ ("Commits" :> SumField(daily_stats, "Commits"))
        @@ ("Pull Requests" :> SumField(daily_stats, "Pull Requests"))
        @@ ("Tool Calls" :> total_tool_calls)
        @@ ("Tool Success Rate (%)" :>
               IF total_tool_calls > 0
               THEN RoundDiv(total_tool_success_weighted, total_tool_calls) ELSE 0)
        @@ ("Top Tools" :> Join(most_common(MergedToolNames(daily_stats), 3), CommaSpace))
        @@ ("API Errors" :> SumField(daily_stats, "API Errors"))
        @@ ("Avg API Duration (ms)" :>
               IF total_api_calls > 0
               THEN RoundDiv(total_duration_weighted, total_api_calls) ELSE 0)
        @@ ("Model Breakdown" :> PeriodModelBreakdown(daily_stats))
        @@ ("model_details" :> MergedModelDetails(daily_stats))

\* the span without its last day
DaysBetween(start_date, end_date) == end_date - start_date
\* (end_date - start_date).days + 1
DaysCount(start_date, end_date) == (end_date - start_date) + 1

\* the outcome of aggregate(current) for each day of current .. end_date, in order
Outcomes(current, end_date) ==
    [i \in 1 .. (end_date - current + 1) |-> aggregate(current + i - 1)]

\* aggregate_range: the while loop keeps the non-empty summaries; the first exception of
\* aggregate ends the call
aggregate_range(start_date, end_date) ==
    Only({LET raised == {i \in DOMAIN outcomes : IsRaise(outcomes[i])}
              kept == SelectSeq(outcomes, LAMBDA o : ~IsRaise(o) /\ o.val # <<>>)
          IN  IF raised # {} THEN outcomes[CHOOSE i \in raised : \A j \in raised : i <= j]
              ELSE Only({Ok([period_start |-> isoformat(start_date),
                             period_end |-> isoformat(end_date),
                             days_count |-> DaysCount(start_date, end_date),
                             days_with_data |-> Len(daily_stats),
                             aggregate |-> IF Len(daily_stats) = 0 THEN <<>>
                                           ELSE _compute_aggregate(daily_stats, start_date,
                                                                   end_date),
                             daily |-> daily_stats])
                         : daily_stats \in {[i \in DOMAIN kept |-> kept[i].val]}})
          : outcomes \in {Outcomes(start_date, end_date)}})

\* f"{year}-{month:02d}-{day:02d}"
DateStr(year, month, day) ==
    FormatInt(year) \o <<"-">> \o ZeroPad(FormatInt(month), 2) \o <<"-">> \o ZeroPad(FormatInt(day), 2)

_empty_day(date_str) ==
    ("Date" :> date_str) @@ ("Sessions" :> 0) @@ ("Active Time (hrs)" :> 0)
    @@ ("User Prompts" :> 0) @@ ("API Calls" :> 0) @@ ("Total Cost ($)" :> 0)
    @@ ("Input Tokens" :> 0) @@ ("Output Tokens" :> 0) @@ ("Cache Read Tokens" :> 0)
    @@ ("Cache Creation Tokens" :> 0) @@ ("Total Tokens" :> 0) @@ ("Lines Added" :> 0)
    @@ ("Lines Removed" :> 0) @@ ("Commits" :> 0) @@ ("Pull Requests" :> 0)
    @@ ("Tool Calls" :> 0) @@ ("Tool Success Rate (%)" :> 0) @@ ("Top Tools" :> <<>>)
    @@ ("API Errors" :> 0) @@ ("Avg API Duration (ms)" :> 0) @@ ("Model Breakdown" :> <<>>)
    @@ ("model_details" :> <<>>)

\* the names the module sheets defines: its imports, constants and functions
SheetsModule ==
    {"logging", "os", "Path", "gspread", "Credentials", "log", "SCOPES", "HEADERS",
     "_get_client", "_get_sheet", "_ensure_headers", "_format_headers", "_check_duplicate",
     "append_row"}

\* the read-month operation of the spreadsheet store: date string -> row, for the rows
\* of the month
read_month_data(year, month) ==
    LET rows == {i \in DOMAIN sheet :
                    \E day \in 1 .. monthrange(year, month) :
                        sheet[i]["Date"] = DateStr(year, month, day)}
    IN  [ds \in {sheet[i]["Date"] : i \in rows} |->
            sheet[CHOOSE i \in rows : sheet[i]["Date"] = ds]]

\* aggregate_month after sheets_data is read: every day of the month filled from the
\* event store, else the spreadsheet, else zeros; the aggregate recomputed from the days
\* with a cost or a call
MonthFill(result, sheets_data, year, month) ==
    LET last_day == monthrange(year, month)
        jsonl(ds) == {i \in DOMAIN result.daily : result.daily[i]["Date"] = ds}
        entry(ds) ==
            IF jsonl(ds) # {} THEN result.daily[CHOOSE i \in jsonl(ds) : \A j \in jsonl(ds) : j <= i]
            ELSE IF ds \in DOMAIN sheets_data THEN sheets_data[ds]
            ELSE _empty_day(ds)
        full_daily == [day \in 1 .. last_day |-> entry(DateStr(year, month, day))]
        data_days == SelectSeq(full_daily, LAMBDA d :
                         _to_float(Get(d, "Total Cost ($)", 0)) > 0
                         \/ _to_float(Get(d, "API Calls", 0)) > 0)
    IN  [period_start |-> result.period_start,
         period_end |-> result.period_end,
         days_count |-> result.days_count,
         days_with_data |-> IF data_days # <<>> THEN Len(data_days) ELSE result.days_with_data,
         aggregate |-> IF data_days # <<>>
                       THEN _compute_aggregate(data_days, date(year, month, 1),
                                               date(year, month, last_day))
                       ELSE result.aggregate,
         daily |-> full_daily,
         period_type |-> "month",
         month |-> FormatInt(year) \o <<"-">> \o ZeroPad(FormatInt(month), 2)]

\* aggregate_month: the range over the month, then sheets.read_month_data, an attribute
\* the module sheets must have
aggregate_month(year, month) ==
    Only({IF IsRaise(result) THEN result
          ELSE IF "read_month_data" \notin SheetsModule THEN Raise("AttributeError")
          ELSE Ok(MonthFill(result.val, read_month_data(year, month), year, month))
          : result \in {aggregate_range(date(year, month, 1),
                                        date(year, month, monthrange(year, month)))}})

\* datetime.fromisoformat(ts_str).hour, or None when the timestamp is missing, empty or
\* unparseable
HourOf(record) ==
    LET ts == Get(record, "ts", None)
    IN  IF Truthy(ts) /\ ts.t = "iso" THEN Num(ts.hour) ELSE None

\* the bucket of the hour before
BucketOffByOne(records, hour) == SelectSeq(records, LAMBDA r : HourOf(r) = Num(hour - 1))
\* _bucket_by_hour(records)[hour]
_bucket_by_hour(records, hour) == SelectSeq(records, LAMBDA r : HourOf(r) = Num(hour))

\* f"{hour:02d}:00-{(hour+1):02d}:00"
TimeRange(hour) ==
    ZeroPad(FormatInt(hour), 2) \o <<":", "0", "0", "-">>
    \o ZeroPad(FormatInt(hour + 1), 2) \o <<":", "0", "0">>

\* one entry of hourly_stats
HourStats(hour_records, hour) ==
    LET input_tokens == _sum_attr(hour_records, "api_request", "input_tokens")
        output_tokens == _sum_attr(hour_records, "api_request", "output_tokens")
        cache_read == _sum_attr(hour_records, "api_request", "cache_read_tokens")
        cache_creation == _sum_attr(hour_records, "api_request", "cache_creation_tokens")
    IN  [hour |-> hour,
         time_range |-> TimeRange(hour),
         api_calls |-> _event_count(hour_records, "api_request"),
         input_tokens |-> IntOf(input_tokens),
         output_tokens |-> IntOf(output_tokens),
         cache_read_tokens |-> IntOf(cache_read),
         cache_creation_tokens |-> IntOf(cache_creation),
         total_tokens |-> IntOf(input_tokens + output_tokens + cache_read + cache_creation),
         total_cost |-> RoundDiv(10000 * _sum_attr(hour_records, "api_request", "cost_usd"), FDen),
         tool_calls |-> _event_count(hour_records, "tool_result"),
         avg_duration_ms |-> _avg_attr(hour_records, "api_request", "duration_ms")]

\* some float() of aggregate_hourly raises on these records
HourlyRaises(records) ==
    LET bucketed == SelectSeq(records, LAMBDA r : HourOf(r) # None)
    IN  \E k \in Range(TokenKeys) \cup {"duration_ms", "cost_usd"} :
            \E v \in Range(AttrValues(bucketed, "api_request", k)) : ~FloatOk(v)

aggregate_hourly(target_date) ==
    Only({IF IsRaise(loaded) THEN loaded
          ELSE IF loaded.val = <<>>
          THEN Ok([date |-> isoformat(target_date), granularity |-> "1h", timezone |-> "UTC",
                   hourly |-> <<>>])
          ELSE IF HourlyRaises(loaded.val) THEN Raise("ValueError")
          ELSE Ok([date |-> isoformat(target_date), granularity |-> "1h", timezone |-> "UTC",
                   hourly |-> [h \in 1 .. 24 |->
                                  Only({HourStats(hour_records, h - 1)
                                        : hour_records \in {_bucket_by_hour(loaded.val, h - 1)}})]])
          : loaded \in {load_records(target_date)}})

(***************************************************************************)
(* The records of the runs.                                                *)
(***************************************************************************)
SonnetId == Sonnet \o <<"4", "-", "5", "-", "2", "0", "2", "5", "0", "9", "2", "9">>
OpusId == Opus4 \o <<"1", "-", "2", "0", "2", "5">>
CommaModel == <<"m", ",", "x">>
Read == <<"R", "e", "a", "d">>
Bash == <<"B", "a", "s", "h">>
CommaTool == <<"E", "d", "i", "t", ",", "W">>
Session1 == "session.id" :> Str(<<"s", "1">>)
Session2 == "service.instance.id" :> Str(<<"s", "2">>)

Log(hour, event, attributes, body, resource) ==
    [ts |-> Ts(hour), type |-> "log", event |-> event,
     data |-> [body |-> body, attributes |-> attributes, resource |-> resource]]

Metric(hour, event, value, attributes, resource) ==
    [ts |-> Ts(hour), type |-> "metric", event |-> event,
     data |-> [value |-> value, attributes |-> attributes, resource |-> resource]]

\* an api_request of the scenario of the spec: whole token counts, a duration and a
\* cost_usd of its own
ApiSonnet ==
    Log(9, "api_request",
        [model |-> Str(SonnetId), input_tokens |-> Whole(1000), output_tokens |-> Whole(500),
         duration_ms |-> Whole(1200), cost_usd |-> Whole(7)],
        Str(<<"a", "p", "i">>), Session1)
\* an api_request whose token counts are fractions
ApiFraction ==
    Log(9, "api_request",
        [model |-> Str(OpusId), input_tokens |-> Num(1), output_tokens |-> Num(FDen + 1),
         cache_read_tokens |-> Whole(4000), cache_creation_tokens |-> Num(2 * FDen - 1)],
        None, Session1)
\* an api_request of an unpriced model, late in the day
ApiUnknown ==
    Log(23, "api_request",
        [model |-> Str(<<"x">>), input_tokens |-> Whole(2000), output_tokens |-> Whole(1000),
         cache_creation_tokens |-> Whole(300), duration_ms |-> Whole(301), cost_usd |-> Num(1)],
        None, Session2)
\* an api_request whose model name holds a comma
ApiComma ==
    Log(0, "api_request",
        [model |-> Str(CommaModel), input_tokens |-> Whole(9000), output_tokens |-> Whole(4000)],
        None, <<>>)
ToolOk == Log(9, "tool_result", [tool_name |-> Str(Read), success |-> Bool(TRUE)], None, Session1)
ToolFail == Log(10, "tool_result", [tool |-> Str(Bash), is_success |-> Bool(FALSE)], None, Session2)
ToolComma == Log(0, "tool_result", [tool_name |-> Str(CommaTool)], None, <<>>)
Prompt == Log(9, "user_prompt", <<>>, Str(<<"h", "i">>), Session1)
ActiveTime == Metric(9, "active_time.total", Whole(1800), <<>>, Session1)
LinesAdded == Metric(10, "lines_of_code.count", Whole(12), Added.d, Session2)

TokenRecords == {ApiSonnet, ApiFraction, ApiUnknown}
ToolRecords == {ToolOk, ToolFail, ApiSonnet}
MixedRecords == {ApiSonnet, ApiComma, ToolOk, ToolComma, Prompt, ActiveTime, LinesAdded}

(***************************************************************************)
(* The model ids of the pricing runs: every pricing-table key followed by  *)
(* up to MaxSuffix more characters, every beginning of a key, and ids that *)
(* belong to no key.                                                       *)
(***************************************************************************)
SuffixChars == {"1", "5", "6", "-", "x"}

RECURSIVE Suffixes(_)
\* the strings of at most n suffix characters
Suffixes(n) ==
    IF n = 0 THEN {<<>>}
    ELSE Suffixes(n - 1) \cup {Append(s, c) : s \in Suffixes(n - 1), c \in SuffixChars}

SomeFutureModelX ==
    <<"s", "o", "m", "e", "-", "f", "u", "t", "u", "r", "e", "-", "m", "o", "d", "e", "l", "-", "x">>

ModelIds ==
    {k \o s : k \in Range(PricingKeys), s \in Suffixes(MaxSuffix)}
    \cup UNION {{SubSeq(k, 1, n) : n \in 0 .. Len(k)} : k \in Range(PricingKeys)}
    \cup {SomeFutureModelX, Unknown, CommaModel}

(***************************************************************************)
(* The state machine: the receiver appends to the file of the day, the     *)
(* clock moves to the next day, and the API layer calls the core.          *)
(***************************************************************************)
Idle == [op |-> "idle"]

\* the first day of the run
Day0 == date(EpochYear, 5, 31)
\* the days the receiver's clock covers
StoreDays == Day0 .. Day0 + MaxDays - 1
\* the days a call may ask for: those, and a day that never gets a file
QueryDays == Day0 .. Day0 + MaxDays
\* the months a call may ask for
QueryMonths == {<<EpochYear, 5>>, <<EpochYear, 6>>}

\* the number of lines in the event store
RECURSIVE StoredLines(_)
StoredLines(days) ==
    IF days = {} THEN 0
    ELSE LET d == CHOOSE x \in days : TRUE
         IN  (IF store[d].exists THEN Len(store[d].lines) ELSE 0) + StoredLines(days \ {d})

InitWith(records) ==
    /\ store = [d \in StoreDays |-> NoFile]
    /\ today = Day0
    /\ writer = Idle
    /\ sheet = <<>>
    /\ producer = records
    /\ resp = Idle

\* _append(records), first half, for the record of one data point or log record (a call
\* with no record returns at once): the path of today is opened for appending, which
\* creates the file
AppendOpen ==
    /\ writer = Idle /\ resp = Idle
    /\ StoredLines(StoreDays) + 1 <= MaxRecords
    /\ \E r \in producer : writer' = [op |-> "append", path |-> today, records |-> <<r>>]
    /\ store' = [store EXCEPT ![today] = IF @.exists THEN @ ELSE File(<<>>)]
    /\ UNCHANGED <<today, sheet, producer, resp>>

\* the first bytes of the line of rec, short of the whole line
PartLine(rec) == [part |-> rec]
\* the lines that are whole
WholeLines(lines) == SelectSeq(lines, LAMBDA l : "part" \notin DOMAIN l)

\* _append(records), in between: the buffer of the file object fills and is written out
\* in the middle of the line of the first record
AppendFlush ==
    /\ writer # Idle /\ resp = Idle
    /\ WholeLines(store[writer.path].lines) = store[writer.path].lines
    /\ store' = [store EXCEPT ![writer.path] = File(@.lines \o <<PartLine(writer.records[1])>>)]
    /\ UNCHANGED <<today, writer, sheet, producer, resp>>

\* _append(records), second half: one line per record is in the file as it is closed
AppendWrite ==
    /\ writer # Idle /\ resp = Idle
    /\ store' = [store EXCEPT ![writer.path] =
                    File(WholeLines(@.lines)
                         \o [i \in DOMAIN writer.records |-> JsonLine(writer.records[i])])]
    /\ writer' = Idle
    /\ UNCHANGED <<today, sheet, producer, resp>>

\* midnight passes
Tick ==
    /\ resp = Idle
    /\ today + 1 \in StoreDays
    /\ today' = today + 1
    /\ UNCHANGED <<store, writer, sheet, producer>>
    /\ resp' = resp

CallAggregate ==
    /\ resp = Idle
    /\ \E d \in QueryDays : resp' = [op |-> "aggregate", args |-> <<d>>, out |-> aggregate(d)]
    /\ UNCHANGED <<store, today, writer, sheet, producer>>

CallAggregateHourly ==
    /\ resp = Idle
    /\ \E d \in QueryDays :
          resp' = [op |-> "aggregate_hourly", args |-> <<d>>, out |-> aggregate_hourly(d)]
    /\ UNCHANGED <<store, today, writer, sheet, producer>>

CallAggregateRange ==
    /\ resp = Idle
    /\ \E s \in QueryDays : \E e \in QueryDays :
          /\ s <= e
          /\ resp' = [op |-> "aggregate_range", args |-> <<s, e>>, out |-> aggregate_range(s, e)]
    /\ UNCHANGED <<store, today, writer, sheet, producer>>

CallAggregateMonth ==
    /\ resp = Idle
    /\ \E ym \in QueryMonths :
          resp' = [op |-> "aggregate_month", args |-> ym, out |-> aggregate_month(ym[1], ym[2])]
    /\ UNCHANGED <<store, today, writer, sheet, producer>>

\* the caller takes the result
Return ==
    /\ resp # Idle
    /\ resp' = Idle
    /\ UNCHANGED <<store, today, writer, sheet, producer>>

Init == InitWith(MixedRecords)

Next ==
    \/ AppendOpen
    \/ AppendWrite
    \/ Tick
    \/ CallAggregate
    \/ CallAggregateHourly
    \/ CallAggregateRange
    \/ CallAggregateMonth
    \/ Return

Spec == Init /\ [][Next]_vars

\* the resolver is called with a model id
CallGetPricing ==
    /\ resp = Idle
    /\ \E id \in ModelIds :
          resp' = [op |-> "get_pricing", args |-> <<id>>, out |-> Ok(get_pricing(id))]
    /\ UNCHANGED <<store, today, writer, sheet, producer>>

NextPricing ==
    \/ CallGetPricing
    \/ Return

InitPricing == InitWith({})
SpecPricing == InitPricing /\ [][NextPricing]_vars

InitTokens == InitWith(TokenRecords)
SpecTokens == InitTokens /\ [][Next]_vars

InitTools == InitWith(ToolRecords)
SpecTools == InitTools /\ [][Next]_vars

(***************************************************************************)
(* api/stats.py, api/export.py and utils.validate_date_range.              *)
(*                                                                         *)
(* An endpoint returns Ok(value), which the framework sends with status    *)
(* 200, or raises HTTPException(status).  The result of a call is          *)
(* [out, called]: called lists the aggregation functions the handler       *)
(* called, in order.                                                       *)
(***************************************************************************)
\* sheets.HEADERS
HEADERS ==
    <<"Date", "Sessions", "Active Time (hrs)", "User Prompts", "API Calls", "Total Cost ($)",
      "Input Tokens", "Output Tokens", "Cache Read Tokens", "Cache Creation Tokens",
      "Total Tokens", "Lines Added", "Lines Removed", "Commits", "Pull Requests",
      "Tool Calls", "Tool Success Rate (%)", "Top Tools", "API Errors",
      "Avg API Duration (ms)", "Model Breakdown">>
HeaderNames == {HEADERS[i] : i \in DOMAIN HEADERS}

\* date.fromisoformat(s) for the form YYYY-MM-DD, of years from EpochYear on
fromisoformat(s) ==
    IF Len(s) # 10 THEN Raise("ValueError")
    ELSE IF s[5] # "-" \/ s[8] # "-" THEN Raise("ValueError")
    ELSE LET y == DigitsValue(SubSeq(s, 1, 4), 0)
             m == DigitsValue(SubSeq(s, 6, 7), 0)
             d == DigitsValue(SubSeq(s, 9, 10), 0)
         IN  IF y < EpochYear \/ m < 1 \/ m > 12 THEN Raise("ValueError")
             ELSE IF d < 1 \/ d > monthrange(y, m) THEN Raise("ValueError")
             ELSE Ok(date(y, m, d))

\* the default of the query parameter max_days
DefaultMaxDays == 90

\* utils.validate_date_range
validate_date_range(start_date, end_date, max_days) ==
    IF start_date > end_date THEN Raise("ValueError")
    ELSE IF DaysCount(start_date, end_date) > max_days THEN Raise("ValueError")
    ELSE Ok(None)

HTTPException(status_code) == [ok |-> FALSE, raised |-> "HTTPException", status_code |-> status_code]

\* ValueError and its subclasses
ValueErrors == {"ValueError", "JSONDecodeError"}

\* the except clauses of an endpoint, for an exception raised inside its try block:
\* except ValueError gives 400, except Exception gives 500
ExceptClauses(exc) ==
    IF exc.raised \in ValueErrors THEN HTTPException(400) ELSE HTTPException(500)

\* get_daily_stats(date_param): date_param is None or Str(s)
get_daily_stats(date_param) ==
    LET target_date == IF date_param = None THEN Ok(today) ELSE fromisoformat(date_param.s)
    IN  IF IsRaise(target_date) THEN [out |-> ExceptClauses(target_date), called |-> <<>>]
        ELSE Only({[out |-> IF IsRaise(summary) THEN ExceptClauses(summary)
                            ELSE IF summary.val = <<>> THEN ExceptClauses(HTTPException(404))
                            ELSE summary,
                    called |-> <<"aggregate">>]
                   : summary \in {aggregate(target_date.val)}})

\* get_range_stats(start_date, end_date, max_days)
get_range_stats(start_date, end_date, max_days) ==
    LET start == fromisoformat(start_date.s)
        end == fromisoformat(end_date.s)
    IN  IF IsRaise(start) THEN [out |-> ExceptClauses(start), called |-> <<>>]
        ELSE IF IsRaise(end) THEN [out |-> ExceptClauses(end), called |-> <<>>]
        ELSE IF IsRaise(validate_date_range(start.val, end.val, max_days))
             THEN [out |-> ExceptClauses(validate_date_range(start.val, end.val, max_days)),
                   called |-> <<>>]
        ELSE Only({[out |-> IF IsRaise(result) THEN ExceptClauses(result) ELSE result,
                    called |-> <<"aggregate_range">>]
                   : result \in {aggregate_range(start.val, end.val)}})

\* csv.DictWriter(fieldnames=HEADERS).writerow(day_stat) for each day: a key that is no
\* field name raises ValueError, a missing one is written empty
WriteRows(daily_stats) ==
    IF \E i \in DOMAIN daily_stats : ~(DOMAIN daily_stats[i] \subseteq HeaderNames)
    THEN Raise("ValueError")
    ELSE Ok([media_type |-> "text/csv",
             rows |-> <<HEADERS>> \o [i \in DOMAIN daily_stats |->
                         [j \in DOMAIN HEADERS |-> Get(daily_stats[i], HEADERS[j], <<>>)]]])

\* export_csv(start_date, end_date)
export_csv(start_date, end_date) ==
    LET start == fromisoformat(start_date.s)
        end == fromisoformat(end_date.s)
    IN  IF IsRaise(start) THEN [out |-> ExceptClauses(start), called |-> <<>>]
        ELSE IF IsRaise(end) THEN [out |-> ExceptClauses(end), called |-> <<>>]
        ELSE Only({[out |-> IF IsRaise(result) THEN ExceptClauses(result)
                            ELSE IF result.val.daily = <<>>
                                 THEN ExceptClauses(HTTPException(404))
                            ELSE IF IsRaise(WriteRows(result.val.daily))
                                 THEN ExceptClauses(WriteRows(result.val.daily))
                            ELSE WriteRows(result.val.daily),
                    called |-> <<"aggregate_range">>]
                   : result \in {aggregate_range(start.val, end.val)}})

\* the records the receiver appends in the runs that exercise the endpoints
ApiRecords == {ApiSonnet, ToolOk}

\* the date strings of requests: the days a call may ask for, new year's day, a 13th
\* month and a word
BadMonth == <<"2", "0", "2", "5", "-", "1", "3", "-", "0", "1">>
RequestDates ==
    {Str(isoformat(d)) : d \in QueryDays \cup {date(EpochYear, 1, 1)}}
    \cup {Str(BadMonth), Str(<<"x">>)}

CallGetDailyStats ==
    /\ resp = Idle
    /\ \E date_param \in RequestDates \cup {None} :
          LET r == get_daily_stats(date_param)
          IN  resp' = [op |-> "get_daily_stats", args |-> <<date_param>>,
                       out |-> r.out, called |-> r.called]
    /\ UNCHANGED <<store, today, writer, sheet, producer>>

CallGetRangeStats ==
    /\ resp = Idle
    /\ \E start_date \in RequestDates : \E end_date \in RequestDates :
       \E max_days \in {MaxDays, DefaultMaxDays} :
          LET r == get_range_stats(start_date, end_date, max_days)
          IN  resp' = [op |-> "get_range_stats", args |-> <<start_date, end_date, max_days>>,
                       out |-> r.out, called |-> r.called]
    /\ UNCHANGED <<store, today, writer, sheet, producer>>

CallExportCsv ==
    /\ resp = Idle
    /\ \E start_date \in RequestDates : \E end_date \in RequestDates :
          LET r == export_csv(start_date, end_date)
          IN  resp' = [op |-> "export_csv", args |-> <<start_date, end_date>>,
                       out |-> r.out, called |-> r.called]
    /\ UNCHANGED <<store, today, writer, sheet, producer>>

NextApi ==
    \/ AppendOpen
    \/ AppendWrite
    \/ Tick
    \/ CallGetDailyStats
    \/ CallGetRangeStats
    \/ CallExportCsv
    \/ Return

InitApi == InitWith(ApiRecords)
SpecApi == InitApi /\ [][NextApi]_vars

(***************************************************************************)
(* sheets.py and aggregator.main.                                          *)
(*                                                                         *)
(* The worksheet is the sequence of its rows, a row a function from the    *)
(* column's header to the cell; the empty cell is <<>>.  The spreadsheet   *)
(* service shows a cell entered as an ISO date or a number as it was       *)
(* entered, so the cell holds the value appended.                          *)
(***************************************************************************)
DateHeader == <<"D", "a", "t", "e">>
\* the row [HEADERS]
HeaderRow == [h \in HeaderNames |-> IF h = "Date" THEN DateHeader ELSE h]

\* ws.row_values(1) == HEADERS
HasHeaders(ws) == ws # <<>> /\ ws[1]["Date"] = DateHeader /\ ws[1] = HeaderRow

\* _ensure_headers(ws): the header row is written when row 1 is empty
_ensure_headers(ws) ==
    IF HasHeaders(ws) THEN ws
    ELSE IF ws = <<>> THEN <<HeaderRow>>
    ELSE IF \A h \in HeaderNames : ws[1][h] = <<>> THEN [ws EXCEPT ![1] = HeaderRow]
    ELSE ws

RECURSIVE DropTrailingEmpty(_)
DropTrailingEmpty(cells) ==
    IF cells # <<>> /\ cells[Len(cells)] = <<>>
    THEN DropTrailingEmpty(SubSeq(cells, 1, Len(cells) - 1))
    ELSE cells

\* ws.col_values(1): the cells of the first column down to the last one that is filled
col_values(ws) == DropTrailingEmpty([i \in DOMAIN ws |-> ws[i]["Date"]])

\* a check that finds no date
NeverDuplicate(ws, target_date) == FALSE

\* _check_duplicate(ws, target_date)
_check_duplicate(ws, target_date) == target_date \in Range(col_values(ws))

\* append_row(summary) on the worksheet sheet: the worksheet it leaves and the line it logs
append_row(summary) ==
    Only({IF _check_duplicate(ws, Get(summary, "Date", <<>>))
          THEN [ws |-> ws, log |-> "already exists in sheet, skipping"]
          ELSE [ws |-> Append(ws, [h \in HeaderNames |-> Get(summary, h, <<>>)]),
                log |-> "Appended row"]
          : ws \in {_ensure_headers(sheet)}})

\* the target of main: --date, else today
TargetOf(date_arg) == IF date_arg = None THEN Ok(today) ELSE fromisoformat(date_arg.s)

\* aggregator.main run with --date date_arg (or None) and --dry-run or not; no call of the
\* spreadsheet service fails
CallMain ==
    /\ resp = Idle
    /\ \E date_arg \in {Str(isoformat(d)) : d \in QueryDays} \cup {None} : \E dry_run \in BOOLEAN :
          LET target == TargetOf(date_arg)
              summary == aggregate(target.val)
              call == [op |-> "main", args |-> <<date_arg, dry_run>>]
          IN  IF IsRaise(target) THEN resp' = call @@ [out |-> target] /\ sheet' = sheet
              ELSE IF IsRaise(summary) THEN resp' = call @@ [out |-> summary] /\ sheet' = sheet
              ELSE IF summary.val = <<>>
                   THEN resp' = call @@ [out |-> Ok("No data to aggregate")] /\ sheet' = sheet
              ELSE IF dry_run THEN resp' = call @@ [out |-> Ok("printed")] /\ sheet' = sheet
              ELSE /\ resp' = call @@ [out |-> Ok(append_row(summary.val).log)]
                   /\ sheet' = append_row(summary.val).ws
    /\ UNCHANGED <<store, today, writer, producer>>

NextSheets ==
    \/ AppendOpen
    \/ AppendWrite
    \/ Tick
    \/ CallMain
    \/ Return

SpecSheets == InitApi /\ [][NextSheets]_vars

(***************************************************************************)
(* The reader next to the receiver: load_records runs while _append is     *)
(* between open and close.                                                 *)
(***************************************************************************)
CallLoadRecords ==
    /\ resp = Idle
    /\ \E d \in QueryDays :
          resp' = [op |-> "load_records", args |-> <<d>>, out |-> load_records(d)]
    /\ UNCHANGED <<store, today, writer, sheet, producer>>

NextAppend ==
    \/ AppendOpen
    \/ AppendFlush
    \/ AppendWrite
    \/ Tick
    \/ CallLoadRecords
    \/ Return

SpecAppend == InitTools /\ [][NextAppend]_vars

(***************************************************************************)
(* Records whose payload is unusual: a field that is no number, a field    *)
(* held by both attributes and body, an api_request of kind metric, a tool *)
(* named only in the body.                                                 *)
(***************************************************************************)
\* an api_request whose input_tokens is a word
ApiMalformed ==
    Log(9, "api_request",
        [model |-> Str(SonnetId), input_tokens |-> Str(<<"x">>), output_tokens |-> Whole(5)],
        None, Session1)
\* an api_request whose attributes say 0 input tokens and whose body says 7
ApiZeroAttr ==
    Log(10, "api_request",
        [model |-> Str(SonnetId), input_tokens |-> Whole(0), output_tokens |-> Whole(3)],
        Dict([input_tokens |-> Whole(7)]), Session1)
\* a data point named api_request that carries token attributes
ApiMetric ==
    Metric(9, "api_request", Whole(1),
           [model |-> Str(SonnetId), input_tokens |-> Whole(100), output_tokens |-> Whole(50)],
           Session1)
\* a tool_result whose attributes name no tool and whose body does
ToolInBody ==
    Log(11, "tool_result", [success |-> Bool(TRUE)], Dict([tool_name |-> Str(Bash)]), Session2)
\* a log record with an empty payload
ApiBare == [ts |-> Ts(12), type |-> "log", event |-> "api_request", data |-> <<>>]

PayloadRecords == {ApiSonnet, ApiMalformed, ApiZeroAttr, ApiMetric, ToolInBody, ApiBare}

NextPayload ==
    \/ AppendOpen
    \/ AppendWrite
    \/ Tick
    \/ CallAggregate
    \/ Return

InitPayload == InitWith(PayloadRecords)
SpecPayload == InitPayload /\ [][NextPayload]_vars

(***************************************************************************)
(* Tool results whose outcome is told in several ways: a bool, the other   *)
(* key, a string as _attrs_to_dict keeps a stringValue.                    *)
(***************************************************************************)
False == <<"f", "a", "l", "s", "e">>
\* a failed tool_result whose success attribute came as the stringValue "false"
ToolFalseString ==
    Log(12, "tool_result", [tool_name |-> Str(Read), success |-> Str(False)], None, Session1)

SuccessRecords == {ToolOk, ToolFail, ToolFalseString}

InitSuccess == InitWith(SuccessRecords)
SpecSuccess == InitSuccess /\ [][NextPayload]_vars

(***************************************************************************)
(* api_request records with a duration of 0 and with token counts split    *)
(* between attributes and body.                                            *)
(***************************************************************************)
\* an api_request that took 0 ms
ApiZeroDuration ==
    Log(10, "api_request",
        [model |-> Str(SonnetId), input_tokens |-> Whole(10), duration_ms |-> Whole(0)],
        None, Session1)
\* an api_request whose output tokens are in attributes and input tokens in the body
ApiSplit ==
    Log(11, "api_request", [model |-> Str(SonnetId), output_tokens |-> Whole(3)],
        Dict([input_tokens |-> Whole(7)]), Session2)

RequestRecords == {ApiSonnet, ApiZeroDuration, ApiSplit}

InitRequests == InitWith(RequestRecords)
SpecRequests == InitRequests /\ [][NextPayload]_vars

(***************************************************************************)
(* The Model Breakdown string, rendered by aggregate and parsed again by   *)
(* _compute_aggregate, for per-model cost maps drawn from a small pool.    *)
(***************************************************************************)
\* model names: plain, with a colon, padded with a blank, with a comma, with ": $"
PaddedModel == <<" ", "m">>
ColonModel == <<"a", ":">>
DollarModel == <<"a", ":", " ", "$", "x">>
BreakdownNames == {<<"x">>, ColonModel, PaddedModel, CommaModel, DollarModel}
\* costs in micro-dollars, as round(cost, 6) leaves them
BreakdownCosts == {0, 6148, 1234567}

\* a day's model_details is rendered and the string is parsed back
CallModelBreakdown ==
    /\ resp = Idle
    /\ \E names \in SUBSET BreakdownNames : \E costs \in [names -> BreakdownCosts] :
          LET model_details == [m \in names |-> [cost |-> costs[m]]]
              day == "Model Breakdown" :> ModelBreakdown(model_details)
          IN  resp' = [op |-> "model_breakdown", args |-> <<model_details>>,
                       out |-> Ok(AllModelCosts(<<day>>))]
    /\ UNCHANGED <<store, today, writer, sheet, producer>>

NextBreakdown ==
    \/ CallModelBreakdown
    \/ Return

SpecBreakdown == InitPricing /\ [][NextBreakdown]_vars

(***************************************************************************)
(* The claims.                                                             *)
(***************************************************************************)
\* the pricing-table keys that are prefixes of id
Matching(id) == {k \in Range(PricingKeys) : startswith(id, k)}
\* the longest of them
LongestMatch(id) == CHOOSE k \in Matching(id) : \A j \in Matching(id) : Len(j) <= Len(k)

\* C1: for every model id, get_pricing returns the rates of the longest pricing-table key
\* that is a prefix of the id; when a shorter key matches too and has other rates, those
\* are not what is returned.
C1_LongestPrefixWins ==
    resp.op = "get_pricing" /\ Matching(resp.args[1]) # {} =>
        /\ resp.out = Ok(PricingOf(LongestMatch(resp.args[1])))
        /\ \A k \in Matching(resp.args[1]) :
              PricingOf(k) # PricingOf(LongestMatch(resp.args[1])) => resp.out.val # PricingOf(k)

\* an id that two keys with different rates match has been resolved
C1_Witness ==
    /\ resp.op = "get_pricing"
    /\ \E k \in Matching(resp.args[1]) : PricingOf(k) # PricingOf(LongestMatch(resp.args[1]))

SonnetClassRates == <<300, 1500, 30, 375>>

\* C2: for every model id that starts with none of the pricing-table prefixes, the empty
\* string included, get_pricing returns the fallback rates (3.00, 15.00, 0.30, 3.75) and
\* does not raise.
C2_FallbackForUnknown ==
    resp.op = "get_pricing" /\ Matching(resp.args[1]) = {} => resp.out = Ok(SonnetClassRates)

\* "some-future-model-x" has been resolved
C2_Witness == resp.op = "get_pricing" /\ resp.args[1] = SomeFutureModelX

\* the Daily Summary a call of aggregate returned
ReturnedSummary == resp.op = "aggregate" /\ resp.out.ok /\ resp.out.val # <<>>

\* C3: in the Daily Summary returned by aggregate, Total Tokens = Input Tokens + Output
\* Tokens + Cache Read Tokens + Cache Creation Tokens, also when records carry
\* non-integer token values.
C3_TotalTokensIsSum ==
    ReturnedSummary =>
        resp.out.val["Total Tokens"] =
            resp.out.val["Input Tokens"] + resp.out.val["Output Tokens"]
            + resp.out.val["Cache Read Tokens"] + resp.out.val["Cache Creation Tokens"]

\* the records with every cost_usd attribute removed
WithoutCost(records) ==
    [i \in DOMAIN records |->
        [records[i] EXCEPT !.data.attributes =
            [k \in DOMAIN @ \ {"cost_usd"} |-> @[k]]]]

RECURSIVE CostOfModels(_, _)
\* the sum of the costs of the models listed in names
CostOfModels(model_details, names) ==
    IF names = <<>> THEN 0
    ELSE model_details[Head(names)].cost + CostOfModels(model_details, Tail(names))

\* C4: for any non-empty record set of a day, Total Cost ($) is the sum of
\* model_details[*].cost (each rounded to 6 decimals) rounded to 4 decimals, and it is
\* what the same records give once every cost_usd they carry is removed.
C4_TotalCostFromModelDetails ==
    ReturnedSummary =>
        /\ resp.out.val["Total Cost ($)"] =
              RoundDiv(CostOfModels(resp.out.val["model_details"],
                                    SortedNames(DOMAIN resp.out.val["model_details"])), 100)
        /\ resp.out.val["Total Cost ($)"] =
              Summary(WithoutCost(load_records(resp.args[1]).val), resp.args[1])["Total Cost ($)"]

\* a summary of two models has been returned for records that carry a cost_usd
C4_Witness ==
    /\ ReturnedSummary
    /\ Cardinality(DOMAIN resp.out.val["model_details"]) >= 2
    /\ resp.out.val["Total Cost ($)"] > 0
    /\ \E r \in Range(load_records(resp.args[1]).val) : "cost_usd" \in DOMAIN r.data.attributes

\* the file of day d holds a record
HoldsRecord(d) == PathExists(d) /\ \E i \in DOMAIN store[d].lines : "json" \in DOMAIN store[d].lines[i]

\* C5 as claimed: aggregate(day) returns the empty result if and only if no event file
\* exists for the day.
C5_EmptyIffNoFile ==
    resp.op = "aggregate" /\ resp.out.ok => (resp.out.val = <<>> <=> ~PathExists(resp.args[1]))

\* C5, amended: aggregate(day) returns the empty result if and only if the day has no
\* record, its file being missing or holding no record; a missing file gives the empty
\* result without raising.
C5_EmptyIffNoRecord ==
    resp.op = "aggregate" =>
        /\ ~PathExists(resp.args[1]) => resp.out = Ok(<<>>)
        /\ resp.out.ok => (resp.out.val = <<>> <=> ~HoldsRecord(resp.args[1]))

\* aggregate has answered for a day whose file exists and holds no record yet
C5_Witness ==
    /\ resp.op = "aggregate"
    /\ PathExists(resp.args[1]) /\ ~HoldsRecord(resp.args[1])
    /\ resp.out = Ok(<<>>)

\* the hourly buckets a call of aggregate_hourly returned
ReturnedHourly == resp.op = "aggregate_hourly" /\ resp.out.ok

\* the records of day d stamped with hour h
StampedAt(d, h) ==
    IF ~PathExists(d) THEN {}
    ELSE {i \in DOMAIN store[d].lines : store[d].lines[i].json.ts = Ts(h)}

\* hourly holds one bucket for each hour 0..23 in ascending order, all counts zero in the
\* hours without records of day d
TwentyFourBuckets(hourly, d) ==
    /\ Len(hourly) = 24
    /\ \A h \in 0 .. 23 :
          /\ hourly[h + 1].hour = h
          /\ StampedAt(d, h) = {} =>
                /\ hourly[h + 1].api_calls = 0 /\ hourly[h + 1].tool_calls = 0
                /\ hourly[h + 1].input_tokens = 0 /\ hourly[h + 1].output_tokens = 0
                /\ hourly[h + 1].cache_read_tokens = 0
                /\ hourly[h + 1].cache_creation_tokens = 0
                /\ hourly[h + 1].total_tokens = 0 /\ hourly[h + 1].total_cost = 0
                /\ hourly[h + 1].avg_duration_ms = 0

\* C6 as claimed: for every day, with or without records in the event store,
\* aggregate_hourly returns exactly 24 hour buckets, hours 0..23 in ascending order, zero
\* in the hours without records.
C6_AlwaysTwentyFour ==
    ReturnedHourly => TwentyFourBuckets(resp.out.val.hourly, resp.args[1])

\* C6, amended: for every day that has at least one record, aggregate_hourly returns
\* exactly 24 hour buckets, hours 0..23 in ascending order, zero in the hours without
\* records; for a day without records it returns an empty list of buckets.
C6_TwentyFourWhenRecords ==
    ReturnedHourly =>
        IF HoldsRecord(resp.args[1])
        THEN TwentyFourBuckets(resp.out.val.hourly, resp.args[1])
        ELSE resp.out.val.hourly = <<>>

\* buckets have been returned for a day with records in some hours only
C6_Witness ==
    /\ ReturnedHourly
    /\ Len(resp.out.val.hourly) = 24
    /\ \E h \in 0 .. 23 : resp.out.val.hourly[h + 1].api_calls > 0
    /\ \E h \in 0 .. 23 : StampedAt(resp.args[1], h) = {}

\* the days of start .. end whose daily aggregate is non-empty
DaysWithData(start_date, end_date) ==
    {d \in start_date .. end_date : aggregate(d).ok /\ aggregate(d).val # <<>>}

\* C7: for every range start <= end, aggregate_range returns days_count = the number of
\* calendar days of the range, days_with_data = the number of days whose daily aggregate
\* is non-empty, and daily = those summaries in ascending date order; when no day has
\* data it returns aggregate = {} and daily = [] and does not raise.
C7_RangeCounts ==
    resp.op = "aggregate_range" /\ (\A d \in resp.args[1] .. resp.args[2] : aggregate(d).ok) =>
        LET with_data == DaysWithData(resp.args[1], resp.args[2])
            r == resp.out.val
        IN  /\ resp.out.ok
            /\ r.days_count = Cardinality(resp.args[1] .. resp.args[2])
            /\ r.days_with_data = Cardinality(with_data)
            /\ Len(r.daily) = r.days_with_data
            /\ r.days_with_data <= r.days_count
            /\ \A d \in with_data :
                  r.daily[Cardinality({x \in with_data : x <= d})] = aggregate(d).val
            /\ with_data = {} => r.aggregate = <<>> /\ r.daily = <<>>

\* a range of several days, some with data and some without, has been aggregated
C7_Witness ==
    /\ resp.op = "aggregate_range" /\ resp.out.ok
    /\ resp.out.val.days_with_data >= 2
    /\ resp.out.val.days_with_data < resp.out.val.days_count

\* C8: for any day D with data, aggregate_range(D, D).aggregate equals aggregate(D) on
\* every Daily Summary field other than Date, for tool and model names of any content.
C8_OneDayRangeIsTheDay ==
    resp.op = "aggregate_range" /\ resp.args[1] = resp.args[2] /\ resp.out.ok
    /\ resp.out.val.days_with_data = 1 =>
        \A k \in DOMAIN aggregate(resp.args[1]).val \ {"Date"} :
            resp.out.val.aggregate[k] = aggregate(resp.args[1]).val[k]

\* the period summary a call of aggregate_range composed
ComposedPeriod == resp.op = "aggregate_range" /\ resp.out.ok /\ resp.out.val.daily # <<>>

\* sum over the days of rate * Tool Calls, and of Tool Calls
WeightedRates(daily) ==
    SumSeq([i \in DOMAIN daily |-> daily[i]["Tool Success Rate (%)"] * daily[i]["Tool Calls"]])
AllToolCalls(daily) == SumSeq([i \in DOMAIN daily |-> daily[i]["Tool Calls"]])

\* every day has the same rate and the same positive Tool Calls
UniformDays(daily) ==
    \A i \in DOMAIN daily :
        /\ daily[i]["Tool Calls"] > 0
        /\ daily[i]["Tool Calls"] = daily[1]["Tool Calls"]
        /\ daily[i]["Tool Success Rate (%)"] = daily[1]["Tool Success Rate (%)"]

\* C9 as claimed: the period Tool Success Rate (%) is sum(day rate * day Tool Calls) /
\* sum(day Tool Calls), and 0 when the total Tool Calls is 0.
C9_ExactWeightedMean ==
    ComposedPeriod =>
        LET rate == resp.out.val.aggregate["Tool Success Rate (%)"]
            calls == AllToolCalls(resp.out.val.daily)
        IN  IF calls = 0 THEN rate = 0
            ELSE rate * calls = WeightedRates(resp.out.val.daily)

\* C9, amended: the period Tool Success Rate (%) is sum(day rate * day Tool Calls) /
\* sum(day Tool Calls) rounded to 1 decimal, and 0 when the
\* total Tool Calls is 0; when every day has the same rate R and the same positive Tool
\* Calls, the period rate equals R.
C9_RoundedWeightedMean ==
    ComposedPeriod =>
        LET rate == resp.out.val.aggregate["Tool Success Rate (%)"]
            calls == AllToolCalls(resp.out.val.daily)
            off == rate * calls - WeightedRates(resp.out.val.daily)
        IN  /\ calls = 0 => rate = 0
            /\ calls > 0 => 2 * off <= calls /\ -2 * off <= calls
            /\ UniformDays(resp.out.val.daily) =>
                  rate = resp.out.val.daily[1]["Tool Success Rate (%)"]

\* a period of days with different rates and Tool Calls, whose weighted mean has more
\* than one decimal, has been composed
C9_Witness ==
    /\ ComposedPeriod
    /\ Len(resp.out.val.daily) >= 2
    /\ AllToolCalls(resp.out.val.daily) > 0
    /\ WeightedRates(resp.out.val.daily) % AllToolCalls(resp.out.val.daily) # 0

\* C10: for every valid (year, month), aggregate_month returns a result whose daily list
\* has exactly days_in_month entries, one per calendar day of the month in ascending
\* order, whatever the event store and the spreadsheet store hold.
C10_MonthHasEveryDay ==
    resp.op = "aggregate_month" =>
        /\ resp.out.ok
        /\ Len(resp.out.val.daily) = monthrange(resp.args[1], resp.args[2])
        /\ \A day \in 1 .. monthrange(resp.args[1], resp.args[2]) :
              resp.out.val.daily[day]["Date"] = DateStr(resp.args[1], resp.args[2], day)

\* sub occurs in s
Contains(s, sub) == \E i \in 1 .. Len(s) - Len(sub) + 1 : SubSeq(s, i, i + Len(sub) - 1) = sub

\* no name of the cost map holds "," or ": $"
PlainNames(model_details) ==
    \A m \in DOMAIN model_details : ~Contains(m, <<",">>) /\ ~Contains(m, ColonDollar)

\* the parsed costs are those of the same names, each rounded to 2 decimals
SameNamesAndCents(model_details, parsed) ==
    /\ DOMAIN parsed = DOMAIN model_details
    /\ \A m \in DOMAIN model_details :
          parsed[m] = 10000 * RoundDiv(model_details[m].cost, 10000)

\* C11 as claimed: for any per-model cost map whose names hold neither "," nor ": $",
\* rendering it as the Model Breakdown string and parsing the string as
\* _compute_aggregate does gives the same set of model names, each with its cost rounded
\* to 2 decimals.
C11_RoundTripPlainNames ==
    resp.op = "model_breakdown" /\ PlainNames(resp.args[1]) =>
        SameNamesAndCents(resp.args[1], resp.out.val)

\* C11, amended: for any per-model cost map whose names hold neither "," nor ": $" and
\* neither begin nor end with whitespace, rendering it as the Model Breakdown string and
\* parsing the string as _compute_aggregate does gives the same set of model names, each
\* with its cost rounded to 2 decimals.
C11_RoundTripTrimmedNames ==
    resp.op = "model_breakdown" /\ PlainNames(resp.args[1])
    /\ (\A m \in DOMAIN resp.args[1] : Strip(m) = m) =>
        SameNamesAndCents(resp.args[1], resp.out.val)

\* a map of two such names, one with a cost that two decimals do not hold, went round
C11_Witness ==
    /\ resp.op = "model_breakdown" /\ PlainNames(resp.args[1])
    /\ \A m \in DOMAIN resp.args[1] : Strip(m) = m
    /\ Cardinality(DOMAIN resp.args[1]) >= 2
    /\ \E m \in DOMAIN resp.args[1] : resp.args[1][m].cost % 10000 # 0

\* C12: when the composed daily summaries carry model_details, the period's Model
\* Breakdown string is the rendering of the merged per-model costs of model_details
\* (summed per model, sorted by model name, each cost with 2 decimals), not a re-parse of
\* the days' Model Breakdown strings.
C12_BreakdownFromMergedDetails ==
    ComposedPeriod /\ "model_details" \in DOMAIN resp.out.val.aggregate =>
        resp.out.val.aggregate["Model Breakdown"] =
            ModelBreakdown(resp.out.val.aggregate["model_details"])

\* the day a request string names
DayOf(date_str) == fromisoformat(date_str.s).val

\* no day of start .. end has a record
NoData(start, end) == \A d \in start .. end : aggregate(d) = Ok(<<>>)

\* C13: a get_daily_stats request for a day without data, and an export_csv request for
\* a range without data, end in a 404 response, never in a 500 response.
C13_MissingDataIsNotFound ==
    /\ resp.op = "get_daily_stats" /\ resp.args[1] # None
       /\ fromisoformat(resp.args[1].s).ok /\ NoData(DayOf(resp.args[1]), DayOf(resp.args[1]))
       => resp.out = HTTPException(404)
    /\ resp.op = "export_csv"
       /\ fromisoformat(resp.args[1].s).ok /\ fromisoformat(resp.args[2].s).ok
       /\ DayOf(resp.args[1]) <= DayOf(resp.args[2])
       /\ NoData(DayOf(resp.args[1]), DayOf(resp.args[2]))
       => resp.out = HTTPException(404)

\* the range of a request is inverted or spans more than max_days days
BadRange(start_date, end_date, max_days) ==
    /\ fromisoformat(start_date.s).ok /\ fromisoformat(end_date.s).ok
    /\ \/ DayOf(start_date) > DayOf(end_date)
       \/ DayOf(end_date) - DayOf(start_date) + 1 > max_days

\* C17: a /range request and a CSV export request whose span exceeds the configured
\* maximum number of days, or whose start date is after its end date, gets a validation
\* error (400) and no aggregation function is called for it.
C17_BadRangeRejectedFirst ==
    /\ resp.op = "get_range_stats" /\ BadRange(resp.args[1], resp.args[2], resp.args[3])
       => resp.out = HTTPException(400) /\ resp.called = <<>>
    /\ resp.op = "export_csv" /\ BadRange(resp.args[1], resp.args[2], DefaultMaxDays)
       => resp.out = HTTPException(400) /\ resp.called = <<>>

\* C14: aggregate does not fail on a malformed or absent payload field: for a day that
\* holds records, whatever their token, duration and metric values are, it returns the
\* day's summary.
C14_MalformedFieldTolerated ==
    resp.op = "aggregate" /\ HoldsRecord(resp.args[1]) => resp.out.ok /\ resp.out.val # <<>>

\* the records of the day of the returned summary
DayRecords == load_records(resp.args[1]).val

\* the summary column of a token key
TokenColumn ==
    [input_tokens |-> "Input Tokens", output_tokens |-> "Output Tokens",
     cache_read_tokens |-> "Cache Read Tokens", cache_creation_tokens |-> "Cache Creation Tokens"]

\* the value of key for record r: that of attributes when they hold the key, else that
\* of the body
AttributesFirst(r, key) ==
    IF key \in DOMAIN Attributes(r) THEN Attributes(r)[key]
    ELSE IF IsDict(Body(r)) THEN Get(Body(r).d, key, None) ELSE None

\* the sum over the records rs of their values for key, attributes first
SumOfAttributesFirst(rs, key) ==
    LET vals == SelectSeq([i \in DOMAIN rs |-> AttributesFirst(rs[i], key)], LAMBDA v : v # None)
    IN  SumSeq([i \in DOMAIN vals |-> FloatOf(vals[i])])

\* C18: for each api_request record and each of the four token keys, the value summed
\* into the day's token totals is that of attributes whenever attributes hold the key,
\* also when it is 0, and that of the body only when attributes lack the key.
C18_AttributesFirstEvenZero ==
    ReturnedSummary =>
        \A key \in Range(TokenKeys) :
            resp.out.val[TokenColumn[key]] =
                IntOf(SumOfAttributesFirst(_event_records(DayRecords, "api_request"), key))

\* the sum over the records rs of the values _sum_attr reads for key
SumOfRead(rs, key) ==
    LET vals == SelectSeq([i \in DOMAIN rs |-> AttrOrBody(rs[i], key)], LAMBDA v : v # None)
    IN  SumSeq([i \in DOMAIN vals |-> FloatOf(vals[i])])

\* the records named api_request of the kinds listed
ApiRequests(records, kinds) ==
    SelectSeq(records, LAMBDA r : r.event = "api_request" /\ r.type \in kinds)

\* C19 as claimed: the day's token sums include every record named api_request, of kind
\* metric as well as of kind log, while API Calls counts the log-kind ones only.
C19_TokensOfMetricAndLog ==
    ReturnedSummary =>
        /\ \A key \in Range(TokenKeys) :
              resp.out.val[TokenColumn[key]] =
                  IntOf(SumOfRead(ApiRequests(DayRecords, {"metric", "log"}), key))
        /\ resp.out.val["API Calls"] = Len(ApiRequests(DayRecords, {"log"}))

\* C19, amended: the day's token sums include the api_request records of kind log and
\* no record of kind metric, and API Calls counts the same log-kind records.
C19_TokensOfLogOnly ==
    ReturnedSummary =>
        /\ \A key \in Range(TokenKeys) :
              resp.out.val[TokenColumn[key]] =
                  IntOf(SumOfRead(ApiRequests(DayRecords, {"log"}), key))
        /\ resp.out.val["API Calls"] = Len(ApiRequests(DayRecords, {"log"}))

\* a summary came back for a day with an api_request of each kind, both with tokens
C19_Witness ==
    /\ ReturnedSummary
    /\ \E r \in Range(ApiRequests(DayRecords, {"metric"})) :
          AttrOrBody(r, "input_tokens") # None
    /\ ApiRequests(DayRecords, {"log"}) # <<>>
    /\ resp.out.val["Input Tokens"] > 0

\* the name a tool_result is tallied under: attributes.tool_name, else attributes.tool,
\* else the body's tool_name or tool, else "unknown"
KeyByKeyToolName(r) ==
    LET body == IF IsDict(Body(r)) THEN Body(r).d ELSE <<>>
    IN  Get(Attributes(r), "tool_name",
            Get(Attributes(r), "tool",
                Get(body, "tool_name", Get(body, "tool", Str(Unknown))))).s

\* C20: every tool_result log record is tallied under attributes.tool_name if present,
\* else attributes.tool, else the body's tool_name or tool, else "unknown", also when its
\* attributes are non-empty and hold neither key.
C20_ToolNameKeyByKey ==
    ReturnedSummary =>
        LET tool_events == _event_records(DayRecords, "tool_result")
        IN  resp.out.val["Top Tools"] =
                Join(most_common([i \in DOMAIN tool_events |-> KeyByKeyToolName(tool_events[i])], 3),
                     CommaSpace)

\* the records of the whole lines of the file of day d
WholeRecords(d) ==
    IF ~PathExists(d) THEN <<>>
    ELSE [i \in DOMAIN WholeLines(store[d].lines) |-> WholeLines(store[d].lines)[i].json]

\* C15: a load_records call that runs while _append writes the day's file does not
\* fail: whatever part of the appended bytes it sees, a partly written last line
\* included, it returns the records of the whole lines.
C15_ReaderToleratesPartLine ==
    resp.op = "load_records" => resp.out.ok /\ resp.out.val = WholeRecords(resp.args[1])

\* the data rows of the worksheet
DataRows(ws) == SelectSeq(ws, LAMBDA row : row["Date"] # DateHeader)
\* the cells of the date column
DateColumn(ws) == {ws[i]["Date"] : i \in DOMAIN ws}

\* no two data rows of the worksheet hold the same date
NoDateTwice ==
    \A i \in DOMAIN DataRows(sheet) : \A j \in DOMAIN DataRows(sheet) :
        i # j => DataRows(sheet)[i]["Date"] # DataRows(sheet)[j]["Date"]

\* a run of main that reaches append_row: no row more and no error when the date of the
\* summary is in the date column, else exactly one row more, with that date
AppendRowStep ==
    resp = Idle /\ resp'.op = "main" /\ ~resp'.args[2]
    /\ aggregate(TargetOf(resp'.args[1]).val).ok /\ aggregate(TargetOf(resp'.args[1]).val).val # <<>> =>
        LET target_date == isoformat(TargetOf(resp'.args[1]).val)
        IN  /\ resp'.out.ok
            /\ IF target_date \in DateColumn(sheet)
               THEN sheet' = sheet
               ELSE /\ Len(DataRows(sheet')) = Len(DataRows(sheet)) + 1
                    /\ SubSeq(DataRows(sheet'), 1, Len(DataRows(sheet))) = DataRows(sheet)
                    /\ DataRows(sheet')[Len(DataRows(sheet'))]["Date"] = target_date

\* C16: after any sequence of sheets.append_row calls run one after another no date is
\* in more than one data row of the sheet: an append_row whose Date is already in the
\* date column adds no row and raises no error, and one whose Date is new adds exactly
\* one row.
C16_NoDateTwice == []NoDateTwice /\ [][AppendRowStep]_vars

\* an append_row found its date in a sheet that holds rows for two dates
C16_Witness ==
    /\ resp.op = "main" /\ resp.out = Ok("already exists in sheet, skipping")
    /\ Len(DataRows(sheet)) = 2

\* the value v is true: the bool, or the word as a string attribute carries it
IsTrue(v) == v = Bool(TRUE) \/ v = Str(<<"t", "r", "u", "e">>)

\* a tool_result is a success exactly when its success attribute, or without it its
\* is_success attribute, is true, or when it has neither
SuccessByAttribute(r) ==
    IF "success" \in DOMAIN Attributes(r) THEN IsTrue(Attributes(r)["success"])
    ELSE IF "is_success" \in DOMAIN Attributes(r) THEN IsTrue(Attributes(r)["is_success"])
    ELSE TRUE

\* C21: Tool Success Rate (%) of a day is successes / Tool Calls * 100, and 0 without
\* tool_result records, a record being a success exactly when its success attribute (or
\* without it its is_success attribute) is true or when it has neither; the rate is
\* between 0 and 100.  The rate is held in tenths of a percent, the decimals the
\* summary keeps.
C21_SuccessRateByAttribute ==
    ReturnedSummary =>
        LET tool_events == _event_records(DayRecords, "tool_result")
            successes == Cardinality({i \in DOMAIN tool_events : SuccessByAttribute(tool_events[i])})
            rate == resp.out.val["Tool Success Rate (%)"]
        IN  /\ resp.out.val["Tool Calls"] = Len(tool_events)
            /\ rate = (IF tool_events = <<>> THEN 0
                       ELSE RoundDiv(1000 * successes, Len(tool_events)))
            /\ rate >= 0 /\ rate <= 1000

\* the entries of a daily series whose Total Cost ($) or API Calls is nonzero
Qualifying(daily) ==
    SelectSeq(daily, LAMBDA d : Get(d, "Total Cost ($)", 0) # 0 \/ Get(d, "API Calls", 0) # 0)

\* in the month result, aggregate is the composition of the qualifying entries of daily
\* and days_with_data is their number
FromQualifyingDays(result, year, month) ==
    /\ result.days_with_data = Len(Qualifying(result.daily))
    /\ result.aggregate =
          IF Qualifying(result.daily) = <<>> THEN <<>>
          ELSE _compute_aggregate(Qualifying(result.daily), date(year, month, 1),
                                  date(year, month, monthrange(year, month)))

\* C23: aggregate_month returns a result whose aggregate is the composition
\* (_compute_aggregate) of exactly the entries of the month's daily series whose Total
\* Cost ($) or API Calls is nonzero, and whose days_with_data is the number of those
\* entries, also when no entry of the month qualifies.
C23_MonthFromQualifyingDays ==
    resp.op = "aggregate_month" =>
        resp.out.ok /\ FromQualifyingDays(resp.out.val, resp.args[1], resp.args[2])

\* the duration_ms values of the api_request log records that carry one, in attributes
\* or body
Durations(records) ==
    LET rs == ApiRequests(records, {"log"})
    IN  SelectSeq([i \in DOMAIN rs |-> AttributesFirst(rs[i], "duration_ms")],
                  LAMBDA v : v # None)

\* C22: Avg API Duration (ms) of a day is the arithmetic mean of duration_ms over the
\* day's api_request log records that carry a duration_ms, in attributes or body, a
\* duration of 0 counting as a value of 0, and is 0 when no record carries one.  The
\* mean is held in tenths, the decimals the summary keeps.
C22_MeanCountsZeroDurations ==
    ReturnedSummary =>
        resp.out.val["Avg API Duration (ms)"] =
            IF Durations(DayRecords) = <<>> THEN 0
            ELSE RoundDiv(10 * SumSeq([i \in DOMAIN Durations(DayRecords) |->
                                          FloatOf(Durations(DayRecords)[i])]),
                          FDen * Len(Durations(DayRecords)))

\* the sum of the token field key over the entries of model_details
SumOverModels(model_details, key) ==
    LET names == SortedNames(DOMAIN model_details)
    IN  SumSeq([i \in DOMAIN names |-> model_details[names[i]][key]])

\* C24: for any record set of a day, each of the four top-level token fields of the
\* Daily Summary is the sum of the same token field over all entries of model_details.
C24_TokensAreSumOverModels ==
    ReturnedSummary =>
        \A key \in Range(TokenKeys) :
            resp.out.val[TokenColumn[key]] = SumOverModels(resp.out.val["model_details"], key)

====
